---- MODULE Spec2Model ----
(***************************************************************************)
(* The GWAS workflow state machine of WorkflowStack.createGwasWorkflow     *)
(* (src/unnamed/part_000) together with the retry strategy of the Batch    *)
(* job definition its two BatchSubmitJob tasks submit                      *)
(* (src/cdk/lib/constructs/lambda-roles.ts).                               *)
(*                                                                         *)
(* One execution of the state machine is modelled.  The two Map states     *)
(* are modelled by counting their iterations per stage: an iteration is    *)
(* in its Parse task, or waits in its Submit task for the Batch job it     *)
(* submitted (RUN_JOB), or is done.  Batch jobs are counted per phase and  *)
(* per attempt.  The Lambda functions and the Batch service are the        *)
(* environment: every task may return or raise.                            *)
(***************************************************************************)
EXTENDS Naturals, FiniteSets, Sequences, TLC

\* ------------------------------------------------------------------ bounds

\* Largest step2Jobs array (one entry per detected chromosome) of Spec.
MaxChromosomes == 3

\* The step2Jobs array of SpecFanOut: more entries than the Map's ceiling.
FanOutChromosomes == 51

\* Most records of the variant index (.bim file) of Spec.
MaxRecords == 3

\* Most writes to the tables in SpecTables.
MaxWrites == 3

\* The most objects uploaded to the data bucket.
MaxUploads == 3

\* ------------------------------------------------------- program constants

\* retryStrategy.attempts of the Batch job definition.
attempts == 2

\* maxConcurrency of the SubmitStep1Jobs Map.
Step1MaxConcurrency == 1

\* maxConcurrency of the SubmitStep2Jobs Map.
Step2MaxConcurrency == 50

Phases == {1, 2}

MapStates == {"SubmitStep1Jobs", "SubmitStep2Jobs"}

\* The Map state of a phase, and the two tasks of its item processor.
MapState(p) == IF p = 1 THEN "SubmitStep1Jobs" ELSE "SubmitStep2Jobs"

ParseTask(p) == IF p = 1 THEN "ParseStep1Command" ELSE "ParseStep2Command"

SubmitTask(p) == IF p = 1 THEN "SubmitStep1Job" ELSE "SubmitStep2Job"

\* Mutant: the phase-2 ceiling is set to twice its value.
maxConcurrency_Doubled(p) ==
    IF p = 1 THEN Step1MaxConcurrency ELSE Step2MaxConcurrency + Step2MaxConcurrency

maxConcurrency(p) == IF p = 1 THEN Step1MaxConcurrency ELSE Step2MaxConcurrency

\* Mutant: the jobs are submitted without waiting for them.
integrationPattern_RequestResponse == "REQUEST_RESPONSE"

\* integrationPattern of SubmitStep1Job and SubmitStep2Job: with RUN_JOB the
\* task ends when the job it submitted is terminal, otherwise when the
\* SubmitJob call returns.
integrationPattern == "RUN_JOB"

\* Mutant: the error handler is chained to the success handler.
NextState_ErrorsThenSuccess(s) ==
    CASE s = "InitializeWorkflow" -> "CalculateBatchJobs"
      [] s = "CalculateBatchJobs" -> "SubmitStep1Jobs"
      [] s = "SubmitStep1Jobs"    -> "SubmitStep2Jobs"
      [] s = "SubmitStep2Jobs"    -> "HandleSuccess"
      [] s = "HandleSuccess"      -> "WorkflowSucceeded"
      [] s = "HandleJobErrors"    -> "HandleSuccess"
      [] OTHER                    -> "End"

\* Mutant: the error handler sends the execution back to the first Map.
NextState_RetryPhase(s) ==
    CASE s = "InitializeWorkflow" -> "CalculateBatchJobs"
      [] s = "CalculateBatchJobs" -> "SubmitStep1Jobs"
      [] s = "SubmitStep1Jobs"    -> "SubmitStep2Jobs"
      [] s = "SubmitStep2Jobs"    -> "HandleSuccess"
      [] s = "HandleSuccess"      -> "WorkflowSucceeded"
      [] s = "HandleJobErrors"    -> "SubmitStep1Jobs"
      [] OTHER                    -> "End"

\* Mutant: the second Map goes to the Succeed state, past HandleSuccess.
NextState_SkipSuccess(s) ==
    CASE s = "InitializeWorkflow" -> "CalculateBatchJobs"
      [] s = "CalculateBatchJobs" -> "SubmitStep1Jobs"
      [] s = "SubmitStep1Jobs"    -> "SubmitStep2Jobs"
      [] s = "SubmitStep2Jobs"    -> "WorkflowSucceeded"
      [] s = "HandleSuccess"      -> "WorkflowSucceeded"
      [] s = "HandleJobErrors"    -> "WorkflowFailed"
      [] OTHER                    -> "End"

\* The .next() chain of the workflow ("End": the state ends the execution).
NextState(s) ==
    CASE s = "InitializeWorkflow" -> "CalculateBatchJobs"
      [] s = "CalculateBatchJobs" -> "SubmitStep1Jobs"
      [] s = "SubmitStep1Jobs"    -> "SubmitStep2Jobs"
      [] s = "SubmitStep2Jobs"    -> "HandleSuccess"
      [] s = "HandleSuccess"      -> "WorkflowSucceeded"
      [] s = "HandleJobErrors"    -> "WorkflowFailed"
      [] OTHER                    -> "End"

\* Mutant: the catcher of a Map state resumes the chain after it.
CatchState_Continue(s) == IF s \in MapStates THEN NextState(s) ELSE "None"

\* Mutant: no state has a catcher.
CatchState_NoCatch(s) == "None"

\* Mutant: an error of a state without a catcher is swallowed and the chain
\* goes on.
CatchState_Resume(s) == IF s \in MapStates THEN "HandleJobErrors" ELSE NextState(s)

\* The addCatch of a state: where an error raised in it is routed
\* ("None": the state has no catcher and the error ends the execution).
CatchState(s) == IF s \in MapStates THEN "HandleJobErrors" ELSE "None"

\* -------------------------------------------------------------------- state

VARIABLES
    current,     \* the state the execution is in
    execStatus,  \* "RUNNING", "SUCCEEDED" or "FAILED" (in SpecStopped also
                 \* "ABORTED" or "TIMED_OUT")
    step1Jobs,   \* length of $.JobCalculation.Payload.step1Jobs
    step2Jobs,   \* length of $.JobCalculation.Payload.step2Jobs
    inParse,     \* per phase: Map iterations in ParseStepNCommand
    running,     \* per phase, per attempt: jobs in that attempt whose
                 \* iteration waits in SubmitStepNJob
    orphaned,    \* per phase: jobs not yet terminal whose iteration was stopped
    succeeded,   \* per phase: Batch jobs that reached SUCCEEDED
    failed,      \* per phase: Batch jobs that reached FAILED
    entered,     \* the top-level states entered so far
    errorAt,     \* the task that raised the last error
    cause,       \* why it raised
    workflowId,  \* $.workflowId
    startStep,   \* the step the run starts with, 1 or 2
    records,     \* the chromosome labels of the records of the variant index
    predList,    \* the prediction-list path of the run parameters
    workflowTable,   \* the items of GwasWorkflowTable
    jobStatusTable,  \* the items of GwasJobStatusTable
    clock,           \* the time of the last write to a table
    dataBucket,      \* the keys of the objects uploaded to the data bucket
    topic,           \* the keys published to ManifestNotificationTopic
    manifestQueue,   \* the messages of ManifestQueue that can be received
    received,        \* the messages of the batch the manifest processor holds
    manifestDeadLetterQueue,  \* the messages of ManifestDeadLetterQueue
    processed,       \* the keys whose message was deleted after its processing
    started,         \* the keys for which an execution was started
    selected,        \* the stacks named to cdk deploy
    deployed         \* the stacks deployed so far

vars == <<current, execStatus, step1Jobs, step2Jobs, inParse, running,
          orphaned, succeeded, failed, entered, errorAt, cause, workflowId,
          startStep, records, predList, workflowTable, jobStatusTable, clock,
          dataBucket, topic, manifestQueue, received, manifestDeadLetterQueue,
          processed, started, selected, deployed>>

error == <<errorAt, cause>>

\* The input of the execution.
input == <<workflowId, startStep, records, predList>>

plan == <<step1Jobs, step2Jobs, input>>

\* The tables; the steps of the state machine below leave them as they are,
\* the writes to them are the actions of SpecTables.
tables == <<workflowTable, jobStatusTable, clock>>

\* The manifest pipeline; the steps of the state machine and the writes to the
\* tables leave it as it is.
manifests == <<dataBucket, topic, manifestQueue, received,
               manifestDeadLetterQueue, processed, started>>

\* The deployment of the stacks.
deployment == <<selected, deployed>>

\* --------------------------------------------------------- job calculation

WorkflowIds == {"wf-a", "wf-b"}

\* Chromosome labels: numbers, as many as the organism has.
Chromosomes == 1..MaxChromosomes

\* Prediction-list paths a run that starts with step 2 may give; a run that
\* starts with step 1 gives none.
PredLists == {"given/a_pred.list", "given/b_pred.list"}

NoPredList == "none"

\* The variant indexes of at most n records.
Indexes(n) == UNION {[1..m -> Chromosomes] : m \in 0..n}

Range(s) == {s[i] : i \in 1..Len(s)}

\* Mutant: one chromosome per record.
Distinct_PerRecord(recs) == recs

\* The distinct labels of a sequence of records, in order of first appearance.
RECURSIVE Distinct(_)
Distinct(recs) ==
    IF recs = <<>> THEN <<>>
    ELSE LET front == Distinct(SubSeq(recs, 1, Len(recs) - 1))
             last == recs[Len(recs)]
         IN  IF last \in Range(front) THEN front ELSE Append(front, last)

\* The chromosome set used when detection finds none.
HardcodedChromosomes == <<1, 2>>

\* Chromosome detection of the job calculator.
DetectChromosomes(recs) ==
    IF Distinct(recs) = <<>> THEN HardcodedChromosomes ELSE Distinct(recs)

\* The identifier of the job of a step (chr = 0: the step-1 job, which has no
\* chromosome).
JobId(w, step, chr) == <<w, step, chr>>

\* The output prefix the step-1 job of workflow w declares.
OutPrefix(w) == "results/" \o w \o "/step1"

\* Mutant: the prediction list is always the one of the run parameters.
PredListPath_Given(w, start, given) == given

\* The prediction-list path the step-2 jobs read: the one step 1 writes when
\* the run starts with step 1, else the one of the run parameters.
PredListPath(w, start, given) ==
    IF start = 1 THEN OutPrefix(w) \o "_pred.list" ELSE given

\* The command strings, as words separated by blanks.
Step1Command(w) ==
    <<"regenie", " ", "--step", " ", "1", " ", "--out", " ", OutPrefix(w)>>

Step2Command(w, chr, pred) ==
    <<"regenie", " ", "--step", " ", "2", " ", "--chr", " ", ToString(chr), " ",
      "--pred", " ", pred, " ", "--out", " ",
      "results/" \o w \o "/step2_chr" \o ToString(chr)>>

\* $.JobCalculation.Payload.step1Jobs as the job calculator builds it.
BuildStep1Jobs(w, start) ==
    IF start = 1
       THEN <<[jobId |-> JobId(w, 1, 0), stepNumber |-> 1, chromosome |-> 0,
               Command |-> Step1Command(w)]>>
       ELSE <<>>

\* $.JobCalculation.Payload.step2Jobs as the job calculator builds it.
BuildStep2Jobs(w, start, recs, given) ==
    LET chrs == DetectChromosomes(recs)
    IN  [i \in 1..Len(chrs) |->
            [jobId |-> JobId(w, 2, chrs[i]), stepNumber |-> 2, chromosome |-> chrs[i],
             Command |-> Step2Command(w, chrs[i], PredListPath(w, start, given))]]

\* The items of the Map of phase p.
PlanItems(p) ==
    IF p = 1 THEN BuildStep1Jobs(workflowId, startStep)
             ELSE BuildStep2Jobs(workflowId, startStep, records, predList)

jobs == <<inParse, running, orphaned, succeeded, failed>>

\* Mutant: both Maps iterate over step2Jobs.
Items_Step2Only(p) == step2Jobs

\* Mutant: each Map processes its last item twice.
Items_LastTwice(p) == (IF p = 1 THEN step1Jobs ELSE step2Jobs) + 1

\* itemsPath of the Map of phase p.
Items(p) == IF p = 1 THEN step1Jobs ELSE step2Jobs

\* The jobs counted by f, a count per attempt, up to attempt k.
RECURSIVE Total(_, _)
Total(f, k) == IF k = 0 THEN 0 ELSE f[k] + Total(f, k - 1)

\* Iterations of the Map of phase p waiting for their Batch job.
Waiting(p) == Total(running[p], attempts)

\* Batch jobs of a phase that are submitted and not yet terminal.
InFlight(p) == Waiting(p) + orphaned[p]

\* Batch jobs of a phase submitted so far.
Submitted(p) == InFlight(p) + succeeded[p] + failed[p]

\* Iterations the Map of phase p has started so far (while it runs).
Started(p) == inParse[p] + Submitted(p)

\* Mutant: an iteration is done as soon as its job is submitted.
Done_OnSubmit(p) == Submitted(p)

\* Iterations of the Map of phase p that are done (while it runs).
Done(p) == IF integrationPattern = "RUN_JOB" THEN succeeded[p] ELSE Submitted(p)

Active(p) == execStatus = "RUNNING" /\ current = MapState(p)

\* The start of an execution, with no object uploaded yet.
ExecutionStart ==
    /\ current = "InitializeWorkflow"
    /\ execStatus = "RUNNING"
    /\ inParse = [p \in Phases |-> 0]
    /\ running = [p \in Phases |-> [k \in 1..attempts |-> 0]]
    /\ orphaned = [p \in Phases |-> 0]
    /\ succeeded = [p \in Phases |-> 0]
    /\ failed = [p \in Phases |-> 0]
    /\ entered = {"InitializeWorkflow"}
    /\ errorAt = "None"
    /\ cause = "None"
    /\ workflowTable = {}
    /\ jobStatusTable = {}
    /\ clock = 0
    /\ dataBucket = {}
    /\ topic = {}
    /\ manifestQueue = {}
    /\ received = {}
    /\ manifestDeadLetterQueue = {}
    /\ processed = {}
    /\ started = {}

\* The stacks of the application.
Stacks ==
    {"GwasNetworkStack", "GwasStorageStack", "GwasDatabaseStack", "GwasComputeStack",
     "GwasLambdaStack", "GwasWorkflowStack", "GwasQueueProcessingStack",
     "GwasMonitoringStack"}

\* An execution starts in the deployed application.
StartState ==
    /\ ExecutionStart
    /\ selected = Stacks
    /\ deployed = Stacks

\* itemSelector of both Maps: the input of the iteration for an item.
ItemSelector(item) ==
    [jobId |-> item.jobId, Command |-> item.Command, stepNumber |-> item.stepNumber,
     workflowId |-> workflowId]

\* ParseStepNCommand: the command parser turns the command string of the
\* iteration into the list of its words.
ParseStepCommand(iteration) ==
    [Payload |-> [jobSubmission |-> [ContainerOverrides |->
        [Command |-> SelectSeq(iteration.Command, LAMBDA t : t # " ")]]]]

\* containerOverrides.command of SubmitStepNJob, for the iteration of an item.
containerOverridesCommand(item) ==
    ParseStepCommand(ItemSelector(item)).Payload.jobSubmission.ContainerOverrides.Command

\* The word that follows option opt in a command.
ArgOf(cmd, opt) == cmd[(CHOOSE i \in 1..Len(cmd) : cmd[i] = opt) + 1]

\* Mutant: the jobs are named after their workflow and step only.
jobName_WorkflowStep(iteration) == JobId(iteration.workflowId, iteration.stepNumber, 0)

\* jobName of SubmitStep1Job and SubmitStep2Job: the name under which the
\* iteration submits its Batch job.
jobName(iteration) == iteration.jobId

\* The job calculation of the input.
Planned ==
    /\ step1Jobs = Len(PlanItems(1))
    /\ step2Jobs = Len(PlanItems(2))

Init ==
    /\ workflowId \in WorkflowIds
    /\ startStep \in {1, 2}
    /\ records \in Indexes(MaxRecords)
    /\ predList \in (IF startStep = 1 THEN {NoPredList} ELSE PredLists)
    /\ Planned
    /\ StartState

InitFanOut ==
    /\ workflowId = "wf-a"
    /\ startStep = 1
    /\ records = [i \in 1..FanOutChromosomes |-> i]
    /\ predList = NoPredList
    /\ Planned
    /\ StartState

\* ------------------------------------------------------------ transitions

\* The execution moves to state s.
Enter(s) ==
    /\ current' = s
    /\ entered' = entered \cup {s}

\* An error raised in the top-level state s by task t for cause c: the
\* catcher of s takes it, or the execution fails.
Raise(s, t, c) ==
    /\ errorAt' = t
    /\ cause' = c
    /\ IF CatchState(s) = "None"
          THEN /\ execStatus' = "FAILED"
               /\ UNCHANGED <<current, entered>>
          ELSE /\ Enter(CatchState(s))
               /\ UNCHANGED execStatus

\* Mutant: the error of one iteration is tolerated; the iteration ends and
\* the Map goes on with the others.
MapFails_Tolerated(p, t, c, others) ==
    /\ errorAt' = t
    /\ cause' = c
    /\ inParse' = [inParse EXCEPT ![p] = IF others = running[p] THEN @ - 1 ELSE @]
    /\ running' = [running EXCEPT ![p] = others]
    /\ UNCHANGED <<current, execStatus, entered, orphaned>>

\* The Map of phase p fails on the error of task t of one iteration; `others`
\* counts, per attempt, the jobs the other iterations wait for.  Those
\* iterations are stopped, and their jobs stay in Batch.
MapFails(p, t, c, others) ==
    /\ Raise(MapState(p), t, c)
    /\ inParse' = [inParse EXCEPT ![p] = 0]
    /\ running' = [running EXCEPT ![p] = [k \in 1..attempts |-> 0]]
    /\ orphaned' = [orphaned EXCEPT ![p] = @ + Total(others, attempts)]

\* A LambdaInvoke task of the top level returns.
Returns(s) ==
    /\ execStatus = "RUNNING"
    /\ current = s
    /\ Enter(NextState(s))
    /\ UNCHANGED <<execStatus, plan, tables, manifests, deployment, jobs, error>>

\* A LambdaInvoke task of the top level raises.
Fails(s) ==
    /\ execStatus = "RUNNING"
    /\ current = s
    /\ Raise(s, s, "LambdaError")
    /\ UNCHANGED <<plan, tables, manifests, deployment, jobs>>

InitializeWorkflow == Returns("InitializeWorkflow")

InitializeWorkflowFails == Fails("InitializeWorkflow")

CalculateBatchJobs == Returns("CalculateBatchJobs")

CalculateBatchJobsFails == Fails("CalculateBatchJobs")

HandleJobErrors == Returns("HandleJobErrors")

HandleJobErrorsFails == Fails("HandleJobErrors")

HandleSuccess == Returns("HandleSuccess")

HandleSuccessFails == Fails("HandleSuccess")

\* The Fail state.
WorkflowFailed ==
    /\ execStatus = "RUNNING"
    /\ current = "WorkflowFailed"
    /\ execStatus' = "FAILED"
    /\ UNCHANGED <<current, plan, tables, manifests, deployment, jobs, entered, error>>

\* The Succeed state.
WorkflowSucceeded ==
    /\ execStatus = "RUNNING"
    /\ current = "WorkflowSucceeded"
    /\ execStatus' = "SUCCEEDED"
    /\ UNCHANGED <<current, plan, tables, manifests, deployment, jobs, entered, error>>

\* The Map of phase p starts its next iteration, in ParseStepNCommand.
StartIteration(p) ==
    /\ Active(p)
    /\ Started(p) < Items(p)
    /\ Started(p) - Done(p) < maxConcurrency(p)
    /\ inParse' = [inParse EXCEPT ![p] = @ + 1]
    /\ UNCHANGED <<current, execStatus, plan, tables, manifests, deployment,
                 running, orphaned, succeeded,
                   failed, entered, error>>

\* ParseStepNCommand of one iteration raises.
ParseStepCommandFails(p) ==
    /\ Active(p)
    /\ inParse[p] > 0
    /\ MapFails(p, ParseTask(p), "LambdaError", running[p])
    /\ UNCHANGED <<plan, tables, manifests, deployment, succeeded, failed>>

\* ParseStepNCommand of one iteration returns and SubmitStepNJob submits the
\* Batch job, whose first attempt starts.
SubmitStepJob(p) ==
    /\ Active(p)
    /\ inParse[p] > 0
    /\ inParse' = [inParse EXCEPT ![p] = @ - 1]
    /\ running' = [running EXCEPT ![p][1] = @ + 1]
    /\ UNCHANGED <<current, execStatus, plan, tables, manifests, deployment,
                 orphaned, succeeded, failed,
                   entered, error>>

\* ParseStepNCommand of one iteration returns and the SubmitJob call of
\* SubmitStepNJob is rejected.
SubmitStepJobFails(p) ==
    /\ Active(p)
    /\ inParse[p] > 0
    /\ MapFails(p, SubmitTask(p), "SubmitRejected", running[p])
    /\ UNCHANGED <<plan, tables, manifests, deployment, succeeded, failed>>

\* Mutant: a job is FAILED by its first failed attempt.
RetryDecision_NoRetry(k) == "FAILED"

\* What Batch does with a job whose attempt k exited non-zero.
RetryDecision(k) == IF k < attempts THEN "RETRY" ELSE "FAILED"

\* Attempt k of a job exits non-zero: Batch runs the next attempt, or the job
\* is FAILED and the SubmitStepNJob task waiting for it raises.
JobAttemptFails(p, k) ==
    /\ Active(p)
    /\ running[p][k] > 0
    /\ IF RetryDecision(k) = "RETRY"
          THEN /\ running' = [running EXCEPT ![p][k] = @ - 1, ![p][k + 1] = @ + 1]
               /\ UNCHANGED <<current, execStatus, inParse, orphaned, failed,
                              entered, error>>
          ELSE /\ failed' = [failed EXCEPT ![p] = @ + 1]
               /\ MapFails(p, SubmitTask(p), "AttemptsExhausted",
                           [running[p] EXCEPT ![k] = @ - 1])
    /\ UNCHANGED <<plan, tables, manifests, deployment, succeeded>>

\* Attempt k of a job exceeds attemptDurationSeconds: Batch terminates the
\* job, which is FAILED without another attempt, and the SubmitStepNJob task
\* waiting for it raises.
JobAttemptTimesOut(p, k) ==
    /\ Active(p)
    /\ running[p][k] > 0
    /\ failed' = [failed EXCEPT ![p] = @ + 1]
    /\ MapFails(p, SubmitTask(p), "AttemptTimedOut", [running[p] EXCEPT ![k] = @ - 1])
    /\ UNCHANGED <<plan, tables, manifests, deployment, succeeded>>

\* Attempt k of a job exits zero: the job is SUCCEEDED and the iteration
\* waiting for it is done.
JobSucceeds(p, k) ==
    /\ Active(p)
    /\ running[p][k] > 0
    /\ running' = [running EXCEPT ![p][k] = @ - 1]
    /\ succeeded' = [succeeded EXCEPT ![p] = @ + 1]
    /\ UNCHANGED <<current, execStatus, plan, tables, manifests, deployment,
                 inParse, orphaned, failed,
                   entered, error>>

\* A job whose iteration was stopped ends SUCCEEDED; nothing waits for it.
OrphanedJobSucceeds(p) ==
    /\ execStatus = "RUNNING"
    /\ orphaned[p] > 0
    /\ orphaned' = [orphaned EXCEPT ![p] = @ - 1]
    /\ succeeded' = [succeeded EXCEPT ![p] = @ + 1]
    /\ UNCHANGED <<current, execStatus, plan, tables, manifests, deployment,
                 inParse, running, failed,
                   entered, error>>

\* A job whose iteration was stopped ends FAILED (its last attempt exits
\* non-zero, or it is terminated); nothing waits for it.
OrphanedJobFails(p) ==
    /\ execStatus = "RUNNING"
    /\ orphaned[p] > 0
    /\ orphaned' = [orphaned EXCEPT ![p] = @ - 1]
    /\ failed' = [failed EXCEPT ![p] = @ + 1]
    /\ UNCHANGED <<current, execStatus, plan, tables, manifests, deployment,
                 inParse, running, succeeded,
                   entered, error>>

\* Every item of the Map of phase p has been processed.
MapSucceeds(p) ==
    /\ Active(p)
    /\ Done(p) = Items(p)
    /\ Enter(NextState(MapState(p)))
    /\ UNCHANGED <<execStatus, plan, tables, manifests, deployment, jobs, error>>

Next ==
    \/ InitializeWorkflow
    \/ InitializeWorkflowFails
    \/ CalculateBatchJobs
    \/ CalculateBatchJobsFails
    \/ HandleJobErrors
    \/ HandleJobErrorsFails
    \/ HandleSuccess
    \/ HandleSuccessFails
    \/ WorkflowFailed
    \/ WorkflowSucceeded
    \/ \E p \in Phases : StartIteration(p)
    \/ \E p \in Phases : ParseStepCommandFails(p)
    \/ \E p \in Phases : SubmitStepJob(p)
    \/ \E p \in Phases : SubmitStepJobFails(p)
    \/ \E p \in Phases, k \in 1..attempts : JobAttemptFails(p, k)
    \/ \E p \in Phases, k \in 1..attempts : JobAttemptTimesOut(p, k)
    \/ \E p \in Phases, k \in 1..attempts : JobSucceeds(p, k)
    \/ \E p \in Phases : OrphanedJobSucceeds(p)
    \/ \E p \in Phases : OrphanedJobFails(p)
    \/ \E p \in Phases : MapSucceeds(p)

Spec == Init /\ [][Next]_vars

\* The execution is ended from outside its states with status st for cause
\* c: no catcher runs and no further state is entered.  Step Functions asks
\* Batch to terminate the jobs its RUN_JOB tasks wait for (the role may call
\* batch:TerminateJob), which makes them FAILED; jobs that are terminal, and
\* jobs no task waits for, are left as they are.
ExecutionEnds(st, c) ==
    /\ execStatus = "RUNNING"
    /\ execStatus' = st
    /\ cause' = c
    /\ inParse' = [p \in Phases |-> 0]
    /\ running' = [p \in Phases |-> [k \in 1..attempts |-> 0]]
    /\ failed' = [p \in Phases |-> failed[p] + Waiting(p)]
    /\ UNCHANGED <<current, plan, tables, manifests, deployment,
                 orphaned, succeeded, entered, errorAt>>

\* StopExecution is called on the running execution.
StopExecution == ExecutionEnds("ABORTED", "ExecutionAborted")

\* The timeout of the state machine expires.
ExecutionTimesOut == ExecutionEnds("TIMED_OUT", "ExecutionTimedOut")

NextStopped ==
    \/ Next
    \/ StopExecution
    \/ ExecutionTimesOut

\* The execution with the ways Step Functions can end it from outside.
SpecStopped == Init /\ [][NextStopped]_vars

SpecFanOut == InitFanOut /\ [][Next]_vars

\* The states of the state machine.
States ==
    {"InitializeWorkflow", "CalculateBatchJobs", "SubmitStep1Jobs", "SubmitStep2Jobs",
     "HandleSuccess", "WorkflowSucceeded", "HandleJobErrors", "WorkflowFailed"}

\* The states a state leads to: its next state and the state of its catcher.
Successors(s) == {NextState(s), CatchState(s)} \cap States

RECURSIVE Descendants(_, _)
\* The states reached from the frontier.
Descendants(frontier, seen) ==
    IF frontier \subseteq seen
       THEN seen
       ELSE Descendants(UNION {Successors(t) : t \in frontier}, seen \cup frontier)

\* The executions in which a task that can return does return: each Lambda
\* invocation and each Batch job ends, and the service takes the next step.
SpecLive == Init /\ [][Next]_vars /\ WF_vars(Next)

\* ------------------------------------------------------------------ tables

\* The key schema of GwasWorkflowTable: partition key workflowId.
WorkflowTableKey == {"workflowId"}

\* The key schema of GwasJobStatusTable: partition key workflowId, sort key
\* jobId.
JobStatusTableKey == {"workflowId", "jobId"}

\* The primary key of an item under a key schema.
KeyOf(schema, item) == [a \in schema |-> item[a]]

\* Mutant: a write adds an item whatever the table holds.
PutItem_Insert(table, schema, item) == table \cup {item}

\* DynamoDB PutItem: the item replaces the item of the same primary key.
PutItem(table, schema, item) ==
    {i \in table : KeyOf(schema, i) # KeyOf(schema, item)} \cup {item}

\* DynamoDB UpdateItem of the status: the item of that primary key gets the
\* status and the time of the update, and is created when the table has none.
UpdateItem(table, schema, key, st, now) ==
    LET old == {i \in table : KeyOf(schema, i) = KeyOf(schema, key)}
    IN  IF old = {}
           THEN PutItem(table, schema,
                        [a \in DOMAIN key \cup {"status", "createdAt", "updatedAt"} |->
                            IF a \in DOMAIN key THEN key[a]
                            ELSE IF a = "status" THEN st ELSE now])
           ELSE LET i == CHOOSE i \in old : TRUE
                IN  PutItem(table, schema, [i EXCEPT !.status = st, !.updatedAt = now])

\* The principals that run code of the deployment: the five Lambda functions of
\* the state machine, the manifest processor and the container of a Batch job.
Principals ==
    {"WorkflowInit", "JobCalculator", "CommandParser", "ErrorHandler",
     "SuccessHandler", "ManifestProcessor", "BatchJob"}

Tables == {"GwasWorkflowTable", "GwasJobStatusTable"}

\* The DynamoDB actions that change the items of a table.
TableWriteActions ==
    {"dynamodb:PutItem", "dynamodb:UpdateItem", "dynamodb:DeleteItem",
     "dynamodb:BatchWriteItem"}

\* A policy statement: every action on every resource.
Grant(actions, resources) == actions \X resources

\* addDynamoDBFullPermissions on both tables.
DynamoDBFullPermissions ==
    Grant({"dynamodb:GetItem", "dynamodb:PutItem", "dynamodb:UpdateItem",
           "dynamodb:DeleteItem"}, Tables)

\* grantReadWriteData on both tables.
ReadWriteData ==
    Grant({"dynamodb:BatchGetItem", "dynamodb:GetItem", "dynamodb:Query",
           "dynamodb:Scan", "dynamodb:ConditionCheckItem", "dynamodb:DescribeTable",
           "dynamodb:BatchWriteItem", "dynamodb:PutItem", "dynamodb:UpdateItem",
           "dynamodb:DeleteItem"}, Tables)

S3Read(bucket) == Grant({"s3:GetObject", "s3:ListBucket"}, {bucket})

S3ReadWrite(bucket) ==
    Grant({"s3:GetObject", "s3:ListBucket", "s3:PutObject", "s3:DeleteObject"}, {bucket})

\* Mutant: the role of every principal is given the full table permissions.
Policy_TablesForAll(f) == DynamoDBFullPermissions

\* The permissions of the execution role of principal f.
Policy(f) ==
    CASE f = "WorkflowInit" ->
           S3Read("DataBucket") \cup S3ReadWrite("ResultsBucket")
             \cup DynamoDBFullPermissions
      [] f = "JobCalculator" ->
           S3Read("DataBucket") \cup S3ReadWrite("ResultsBucket")
             \cup DynamoDBFullPermissions
             \cup Grant({"batch:DescribeJobs", "batch:ListJobs",
                         "batch:DescribeJobQueues", "batch:DescribeJobDefinitions"},
                        {"JobQueue", "JobDefinitions", "Jobs"})
      [] f = "ErrorHandler" ->
           ReadWriteData
             \cup Grant({"batch:DescribeJobs", "batch:ListJobs"},
                        {"JobQueue", "JobDefinitions", "Jobs"})
      [] f = "SuccessHandler" ->
           S3Read("ResultsBucket") \cup DynamoDBFullPermissions
      [] f = "CommandParser" ->
           Grant({"batch:DescribeJobDefinitions"}, {"JobDefinitions"})
      [] f = "ManifestProcessor" ->
           S3Read("DataBucket")
             \cup Grant({"states:StartExecution"}, {"StateMachine"})
             \cup Grant({"sqs:ReceiveMessage", "sqs:DeleteMessage",
                         "sqs:ChangeMessageVisibility", "sqs:GetQueueAttributes"},
                        {"ManifestQueue"})
      [] f = "BatchJob" ->
           Grant({"s3:GetObject", "s3:PutObject", "s3:DeleteObject",
                  "s3:GetObjectVersion", "s3:DeleteObjectVersion",
                  "s3:RestoreObject", "s3:ListBucket"}, {"DataBucket"})

\* IAM allows principal f the action on the resource when a statement of its
\* role grants it.
Allowed(f, action, resource) == <<action, resource>> \in Policy(f)

WorkflowStatuses ==
    {"INITIALIZED", "CALCULATING_JOBS", "RUNNING_PHASE_1", "RUNNING_PHASE_2",
     "COMPLETED", "FAILED"}

JobStatuses == {"PENDING", "RUNNING", "COMPLETED", "FAILED"}

\* The job identifiers of the plan of workflow w for the input.
JobIds(w) ==
    LET s1 == BuildStep1Jobs(w, startStep)
        s2 == BuildStep2Jobs(w, startStep, records, predList)
    IN  {s1[i].jobId : i \in 1..Len(s1)} \cup {s2[i].jobId : i \in 1..Len(s2)}

\* A Lambda function puts the record of workflow w.
PutWorkflow(w, st) ==
    /\ clock < MaxWrites
    /\ clock' = clock + 1
    /\ workflowTable' = PutItem(workflowTable, WorkflowTableKey,
            [workflowId |-> w, status |-> st, createdAt |-> clock', updatedAt |-> clock'])
    /\ UNCHANGED <<current, execStatus, plan, jobs, entered, error, jobStatusTable,
                   manifests, deployment>>

\* A Lambda function updates the status of workflow w.
UpdateWorkflow(w, st) ==
    /\ clock < MaxWrites
    /\ clock' = clock + 1
    /\ workflowTable' = UpdateItem(workflowTable, WorkflowTableKey,
                                    [workflowId |-> w], st, clock')
    /\ UNCHANGED <<current, execStatus, plan, jobs, entered, error, jobStatusTable,
                   manifests, deployment>>

\* A Lambda function puts the record of job j of workflow w.
PutJob(w, j, st) ==
    /\ clock < MaxWrites
    /\ clock' = clock + 1
    /\ jobStatusTable' = PutItem(jobStatusTable, JobStatusTableKey,
            [workflowId |-> w, jobId |-> j, status |-> st, createdAt |-> clock',
             updatedAt |-> clock'])
    /\ UNCHANGED <<current, execStatus, plan, jobs, entered, error, workflowTable,
                   manifests, deployment>>

\* A Lambda function updates the status of job j of workflow w.
UpdateJob(w, j, st) ==
    /\ clock < MaxWrites
    /\ clock' = clock + 1
    /\ jobStatusTable' = UpdateItem(jobStatusTable, JobStatusTableKey,
                                     [workflowId |-> w, jobId |-> j], st, clock')
    /\ UNCHANGED <<current, execStatus, plan, jobs, entered, error, workflowTable,
                   manifests, deployment>>

NextTables ==
    \/ \E w \in WorkflowIds, st \in WorkflowStatuses : PutWorkflow(w, st)
    \/ \E w \in WorkflowIds, st \in WorkflowStatuses : UpdateWorkflow(w, st)
    \/ \E w \in WorkflowIds : \E j \in JobIds(w), st \in JobStatuses : PutJob(w, j, st)
    \/ \E w \in WorkflowIds : \E j \in JobIds(w), st \in JobStatuses : UpdateJob(w, j, st)

InitTables ==
    /\ workflowId = "wf-a"
    /\ startStep = 1
    /\ records = <<1>>
    /\ predList = NoPredList
    /\ Planned
    /\ StartState

\* The writes of the Lambda functions to the two tables, in any order.
SpecTables == InitTables /\ [][NextTables]_vars

\* Principal f, running for the workflow of the input, puts its record: the
\* request is served when the role of f allows it.
PrincipalPutsWorkflow(f, st) ==
    /\ Allowed(f, "dynamodb:PutItem", "GwasWorkflowTable")
    /\ PutWorkflow(workflowId, st)

PrincipalUpdatesWorkflow(f, st) ==
    /\ Allowed(f, "dynamodb:UpdateItem", "GwasWorkflowTable")
    /\ UpdateWorkflow(workflowId, st)

PrincipalPutsJob(f, j, st) ==
    /\ Allowed(f, "dynamodb:PutItem", "GwasJobStatusTable")
    /\ PutJob(workflowId, j, st)

PrincipalUpdatesJob(f, j, st) ==
    /\ Allowed(f, "dynamodb:UpdateItem", "GwasJobStatusTable")
    /\ UpdateJob(workflowId, j, st)

NextWrites ==
    \/ \E st \in WorkflowStatuses : \E f \in Principals : PrincipalPutsWorkflow(f, st)
    \/ \E st \in WorkflowStatuses : \E f \in Principals : PrincipalUpdatesWorkflow(f, st)
    \/ \E j \in JobIds(workflowId), st \in JobStatuses : \E f \in Principals :
          PrincipalPutsJob(f, j, st)
    \/ \E j \in JobIds(workflowId), st \in JobStatuses : \E f \in Principals :
          PrincipalUpdatesJob(f, j, st)

\* The table writes that the principals request for one workflow, in any order.
SpecWrites == InitTables /\ [][NextWrites]_vars

\* ------------------------------------------------------- manifest pipeline

\* Object keys, each the sequence of its parts: the key is their concatenation.
ObjectKeys ==
    {<<"manifest", ".json">>, <<"study1/", "manifest", ".json">>,
     <<"study1", ".manifest", ".json">>, <<"samples", ".json">>,
     <<"genotypes", ".bed">>, <<"manifest", ".json", ".bak">>}

\* The parts that end a folder of a key.
Folders == {"study1/"}

\* The key ends with the suffix.
EndsWith(key, suffix) ==
    /\ Len(suffix) <= Len(key)
    /\ SubSeq(key, Len(key) - Len(suffix) + 1, Len(key)) = suffix

\* Mutant: the rule matches every object of the bucket.
RuleMatches_EveryObject(key) == TRUE

\* The event pattern of ManifestEventBridgeRule on the key of an
\* Object Created event of the data bucket: key: [{ suffix: '.json' }].
RuleMatches(key) == EndsWith(key, <<".json">>)

\* The object is named manifest.json, or its key ends with .manifest.json.
IsManifest(key) ==
    \/ EndsWith(key, <<".manifest", ".json">>)
    \/ /\ EndsWith(key, <<"manifest", ".json">>)
       /\ (Len(key) = 2 \/ key[Len(key) - 2] \in Folders)

\* deadLetterQueue.maxReceiveCount of ManifestQueue.
maxReceiveCount == 5

\* batchSize of the event source mapping of the manifest processor.
batchSize == 5

\* The keys of a set of messages.
Keys(messages) == {m.key : m \in messages}

\* Mutant: reportBatchItemFailures off: a batch with a failure comes back whole.
ReturnedToQueue_WholeBatch(batch, failures) == IF failures = {} THEN {} ELSE batch

\* reportBatchItemFailures: of the batch of an invocation that returned, the
\* messages it reported as failed become visible again; the others are deleted.
ReturnedToQueue(batch, failures) == failures

\* An object is created in the data bucket; EventBridge forwards the event the
\* rule matches to the topic, whose subscription puts it in ManifestQueue.
ObjectCreated(key) ==
    /\ key \notin dataBucket
    /\ Cardinality(dataBucket) < MaxUploads
    /\ dataBucket' = dataBucket \cup {key}
    /\ IF RuleMatches(key)
          THEN /\ topic' = topic \cup {key}
               /\ manifestQueue' = manifestQueue \cup {[key |-> key, receiveCount |-> 0]}
          ELSE UNCHANGED <<topic, manifestQueue>>
    /\ UNCHANGED <<current, execStatus, plan, tables, jobs, entered, error, deployment,
                   received, manifestDeadLetterQueue, processed, started>>

\* The event source mapping receives a batch of messages and invokes the
\* manifest processor with it.
ReceiveMessages(batch) ==
    /\ received = {}
    /\ batch # {}
    /\ Cardinality(batch) <= batchSize
    /\ \A m \in batch : m.receiveCount < maxReceiveCount
    /\ received' = {[m EXCEPT !.receiveCount = @ + 1] : m \in batch}
    /\ manifestQueue' = manifestQueue \ batch
    /\ UNCHANGED <<current, execStatus, plan, tables, jobs, entered, error, deployment,
                   dataBucket, topic, manifestDeadLetterQueue, processed, started>>

\* The redrive policy: a message received maxReceiveCount times is moved to the
\* dead-letter queue instead of being received again.
Redrive(m) ==
    /\ m \in manifestQueue
    /\ m.receiveCount >= maxReceiveCount
    /\ manifestQueue' = manifestQueue \ {m}
    /\ manifestDeadLetterQueue' = manifestDeadLetterQueue \cup {m}
    /\ UNCHANGED <<current, execStatus, plan, tables, jobs, entered, error, deployment,
                   dataBucket, topic, received, processed, started>>

\* The manifest processor returns, reporting the messages it failed on: the
\* others are processed, an execution being started for those that name a
\* manifest.
ProcessorReturns(failures) ==
    /\ received # {}
    /\ failures \subseteq received
    /\ LET done == received \ failures
       IN  /\ processed' = processed \cup Keys(done)
           /\ started' = started \cup {k \in Keys(done) : IsManifest(k)}
    /\ manifestQueue' = manifestQueue \cup ReturnedToQueue(received, failures)
    /\ received' = {}
    /\ UNCHANGED <<current, execStatus, plan, tables, jobs, entered, error, deployment,
                   dataBucket, topic, manifestDeadLetterQueue>>

\* The invocation of the manifest processor fails or times out: its whole
\* batch becomes visible again.
ProcessorFails ==
    /\ received # {}
    /\ manifestQueue' = manifestQueue \cup received
    /\ received' = {}
    /\ UNCHANGED <<current, execStatus, plan, tables, jobs, entered, error, deployment,
                   dataBucket, topic, manifestDeadLetterQueue, processed, started>>

NextManifests ==
    \/ \E key \in ObjectKeys : ObjectCreated(key)
    \/ \E batch \in SUBSET manifestQueue : ReceiveMessages(batch)
    \/ \E m \in manifestQueue : Redrive(m)
    \/ \E failures \in SUBSET received : ProcessorReturns(failures)
    \/ ProcessorFails

\* The uploads to the data bucket and the processing of their notifications.
SpecManifests == InitTables /\ [][NextManifests]_vars

\* -------------------------------------------------------------- deployment

\* Mutant: no dependency between stacks is declared.
DependsOn_Nothing(s) == {}

\* The stacks that stack s is declared to depend on with addDependency.
DependsOn(s) ==
    CASE s = "GwasStorageStack" -> {"GwasNetworkStack"}
      [] s = "GwasComputeStack" -> {"GwasNetworkStack", "GwasStorageStack"}
      [] s = "GwasLambdaStack" ->
           {"GwasNetworkStack", "GwasStorageStack", "GwasComputeStack",
            "GwasDatabaseStack"}
      [] s = "GwasWorkflowStack" -> {"GwasLambdaStack"}
      [] s = "GwasQueueProcessingStack" ->
           {"GwasNetworkStack", "GwasStorageStack", "GwasWorkflowStack"}
      [] s = "GwasMonitoringStack" -> {"GwasQueueProcessingStack"}
      [] OTHER -> {}

\* The stacks whose resources are passed to stack s in its props.
Consumes(s) ==
    CASE s = "GwasStorageStack" -> {"GwasNetworkStack"}
      [] s = "GwasComputeStack" -> {"GwasNetworkStack", "GwasStorageStack"}
      [] s = "GwasLambdaStack" ->
           {"GwasNetworkStack", "GwasStorageStack", "GwasComputeStack",
            "GwasDatabaseStack"}
      [] s = "GwasWorkflowStack" ->
           {"GwasLambdaStack", "GwasComputeStack", "GwasStorageStack"}
      [] s = "GwasQueueProcessingStack" ->
           {"GwasNetworkStack", "GwasStorageStack", "GwasWorkflowStack"}
      [] s = "GwasMonitoringStack" ->
           {"GwasQueueProcessingStack", "GwasWorkflowStack", "GwasComputeStack"}
      [] OTHER -> {}

RECURSIVE Reach(_, _)
\* The stacks reached from the frontier along the declared dependencies.
Reach(frontier, seen) ==
    IF frontier \subseteq seen
       THEN seen
       ELSE Reach(UNION {DependsOn(t) : t \in frontier}, seen \cup frontier)

\* The stacks that s depends on, directly or transitively.
Dependencies(s) == Reach(DependsOn(s), {})

\* cdk deploy deploys the stacks it is given and their dependencies.
ToDeploy == selected \cup UNION {Dependencies(s) : s \in selected}

\* A stack is deployed once the stacks it depends on are.
DeployStack(s) ==
    /\ s \in ToDeploy \ deployed
    /\ DependsOn(s) \subseteq deployed
    /\ deployed' = deployed \cup {s}
    /\ UNCHANGED <<current, execStatus, plan, tables, jobs, entered, error, manifests,
                   selected>>

NextDeploy == \E s \in Stacks : DeployStack(s)

\* cdk deploy of any stacks into an account that has none.
InitDeploy ==
    /\ workflowId = "wf-a"
    /\ startStep = 1
    /\ records = <<1>>
    /\ predList = NoPredList
    /\ Planned
    /\ ExecutionStart
    /\ selected \in (SUBSET Stacks) \ {{}}
    /\ deployed = {}

SpecDeploy == InitDeploy /\ [][NextDeploy]_vars

\* ---------------------------------------------------------- workflow status

\* The position of a status in the order of the WorkflowRun statuses.
StatusRank(st) ==
    CASE st = "INITIALIZED"      -> 1
      [] st = "CALCULATING_JOBS" -> 2
      [] st = "RUNNING_PHASE_1"  -> 3
      [] st = "RUNNING_PHASE_2"  -> 4
      [] OTHER                   -> 5

TerminalStatuses == {"COMPLETED", "FAILED"}

\* The status of the WorkflowRun record of the execution: each step of the
\* chain records the status of the stage it opens, the success handler
\* records COMPLETED and the error handler FAILED when they return.  A state
\* that raises records nothing.
WorkflowStatus ==
    CASE current = "InitializeWorkflow" -> "INITIALIZED"
      [] current = "CalculateBatchJobs" -> "CALCULATING_JOBS"
      [] current = "SubmitStep1Jobs"    -> "RUNNING_PHASE_1"
      [] current = "SubmitStep2Jobs"    -> "RUNNING_PHASE_2"
      [] current = "HandleSuccess"      -> "RUNNING_PHASE_2"
      [] current = "WorkflowSucceeded"  -> "COMPLETED"
      [] current = "HandleJobErrors"    ->
            IF "SubmitStep2Jobs" \in entered THEN "RUNNING_PHASE_2"
                                            ELSE "RUNNING_PHASE_1"
      [] OTHER                          -> "FAILED"

\* jobCount of the WorkflowRun record: the jobs of the plan.
jobCount == step1Jobs + step2Jobs

\* jobStats of the WorkflowRun record: the jobs of the workflow by what Batch
\* reports of them.
jobStats ==
    [running   |-> InFlight(1) + InFlight(2),
     succeeded |-> succeeded[1] + succeeded[2],
     failed    |-> failed[1] + failed[2]]

\* ------------------------------------------------- input of HandleJobErrors

\* JSON values.
JString(str) == [type |-> "string", string |-> str]

JArray(items) == [type |-> "array", items |-> items]

JObject(fields) == [type |-> "object", fields |-> fields]

RECURSIVE Concat(_)
\* The concatenation of a sequence of sequences.
Concat(seqs) == IF seqs = <<>> THEN <<>> ELSE Head(seqs) \o Concat(Tail(seqs))

\* JSONPath .name on the nodes selected so far: the field of each node that is
\* an object with that field.
Field(nodes, name) ==
    Concat([i \in 1..Len(nodes) |->
              IF nodes[i].type = "object" /\ name \in DOMAIN nodes[i].fields
                 THEN <<nodes[i].fields[name]>>
                 ELSE <<>>])

\* JSONPath [*] on the nodes selected so far: the elements of each node that
\* is an array; a string has none.
Wildcard(nodes) ==
    Concat([i \in 1..Len(nodes) |->
              IF nodes[i].type = "array" THEN nodes[i].items ELSE <<>>])

\* The error output a catcher stores at its resultPath: the name of the error
\* and its cause, both strings.
CatchOutput(c) ==
    JObject([Error |-> JString(IF c \in {"AttemptsExhausted", "AttemptTimedOut"}
                                  THEN "States.TaskFailed" ELSE c),
             Cause |-> JString(c)])

\* The input of HandleJobErrors: the input of the Map state that failed, with
\* the error output of the catcher at $.error.
HandleJobErrorsStateInput ==
    JObject([workflowId |-> JString(workflowId), error |-> CatchOutput(cause)])

\* What the service can make of a payload field given by a path: a path with
\* no wildcard selects its one node or fails the state; a path with a wildcard
\* gives the list of the nodes it selects, and when it selects none the state
\* gets the empty list or is failed.
Resolve(nodes, definite) ==
    IF definite
       THEN IF Len(nodes) = 1 THEN {[ok |-> TRUE, value |-> nodes[1]]}
                              ELSE {[ok |-> FALSE]}
       ELSE IF Len(nodes) > 0 THEN {[ok |-> TRUE, value |-> JArray(nodes)]}
                              ELSE {[ok |-> TRUE, value |-> JArray(<<>>)], [ok |-> FALSE]}

\* The payload of HandleJobErrors: "workflowId.$": "$.workflowId" and
\* "failedJobs.$": "$.error.Cause[*].ErrorDetails".
HandleJobErrorsPayload ==
    [workflowId |-> Resolve(Field(<<HandleJobErrorsStateInput>>, "workflowId"), TRUE),
     failedJobs |->
        Resolve(Field(Wildcard(Field(Field(<<HandleJobErrorsStateInput>>, "error"),
                                     "Cause")),
                      "ErrorDetails"), FALSE)]

\* ------------------------------------------------------------------- claims

Ended == execStatus # "RUNNING"

\* C1: when the plan has a phase-1 job, no iteration of the SubmitStep2Jobs
\* Map has started (and the Map has not been entered) unless every phase-1
\* job has reached SUCCEEDED.
C1_Phase2AfterPhase1Succeeded ==
    (step1Jobs > 0 /\ (Started(2) > 0 \/ "SubmitStep2Jobs" \in entered))
        => (succeeded[1] = step1Jobs /\ failed[1] = 0 /\ InFlight(1) = 0)

C1_Witness == step1Jobs > 0 /\ Waiting(2) > 0 /\ inParse[2] > 0

\* C2: once the phase-1 job is FAILED, no phase-2 job is or has been
\* submitted, the execution is in HandleJobErrors or WorkflowFailed, and when
\* it has ended it has ended FAILED, in WorkflowFailed unless the error
\* handler itself raised.
C2_Phase1FailureFailsWorkflow ==
    failed[1] > 0 =>
        /\ Started(2) = 0
        /\ "SubmitStep2Jobs" \notin entered
        /\ "HandleJobErrors" \in entered
        /\ current \in {"HandleJobErrors", "WorkflowFailed"}
        /\ Ended => execStatus = "FAILED"
        /\ (Ended /\ errorAt # "HandleJobErrors") => current = "WorkflowFailed"

C2_Witness ==
    failed[1] > 0 /\ step2Jobs > 0 /\ execStatus = "FAILED" /\ current = "WorkflowFailed"

\* C3: HandleSuccess is entered, and the execution ends SUCCEEDED, only when
\* every phase-2 job of the plan has succeeded; once a phase-2 job is FAILED
\* HandleSuccess is never entered and an ended execution has ended FAILED.
C3_SuccessOnlyIfAllPhase2Succeeded ==
    /\ "HandleSuccess" \in entered => (succeeded[2] = step2Jobs /\ failed[2] = 0)
    /\ execStatus = "SUCCEEDED" =>
            ("HandleSuccess" \in entered /\ current = "WorkflowSucceeded")
    /\ failed[2] > 0 =>
            /\ "HandleSuccess" \notin entered
            /\ "HandleJobErrors" \in entered
            /\ Ended => execStatus = "FAILED"

C3_Witness ==
    execStatus = "SUCCEEDED" /\ step2Jobs > 1 /\ succeeded[2] = step2Jobs

\* C4 (as claimed): an execution that ended on the error of InitializeWorkflow,
\* CalculateBatchJobs, a Parse or Submit task of either Map, or HandleSuccess
\* has run HandleJobErrors to completion (it ended through WorkflowFailed).
C4_EveryFailureHandled ==
    (Ended /\ errorAt \in {"InitializeWorkflow", "CalculateBatchJobs",
                            ParseTask(1), SubmitTask(1), ParseTask(2),
                            SubmitTask(2), "HandleSuccess"})
        => (execStatus = "FAILED" /\ "WorkflowFailed" \in entered)

C6_NeverReRun == \A p \in Phases, k \in 2..attempts : running[p][k] = 0

\* C6 (amended): the state machine submits at most one Batch job per planned
\* job; Batch re-runs a job whose attempt exits non-zero, and such a job
\* becomes FAILED and reaches failure handling only when its last attempt
\* (attempt 2) has failed as well.
C6_FailedAfterLastAttempt ==
    /\ [](\A p \in Phases : Submitted(p) <= Items(p))
    /\ [][\A p \in Phases :
            (Active(p) /\ failed'[p] > failed[p] /\ cause' = "AttemptsExhausted") =>
                (running[p][attempts] > 0 /\ current' = "HandleJobErrors")]_vars

C6_Witness == running[2][attempts] > 0 /\ running[2][1] > 0

\* C7: with an empty step1Jobs no phase-1 iteration starts, no phase-1 task
\* raises, and the only step out of SubmitStep1Jobs is into SubmitStep2Jobs;
\* with a phase-1 job SubmitStep2Jobs is entered only after that job was
\* submitted and succeeded.
C7_Phase1SkippedWhenAbsent ==
    /\ [](step1Jobs = 0 =>
            (Started(1) = 0 /\ errorAt \notin {ParseTask(1), SubmitTask(1)}))
    /\ []((step1Jobs > 0 /\ "SubmitStep2Jobs" \in entered) =>
            (Submitted(1) = step1Jobs /\ succeeded[1] = step1Jobs))
    /\ [][(step1Jobs = 0 /\ current = "SubmitStep1Jobs") =>
            (current' = "SubmitStep2Jobs" /\ jobs' = jobs)]_vars

C7_Witness ==
    /\ step1Jobs = 0
    /\ Waiting(2) > 0
    /\ entered = {"InitializeWorkflow", "CalculateBatchJobs", "SubmitStep1Jobs",
                  "SubmitStep2Jobs"}

\* C8: once a job of a phase is FAILED the Map of that phase no longer runs,
\* no further job of the phase is submitted, and the execution reaches
\* neither the next phase nor HandleSuccess nor SUCCEEDED, whatever the jobs
\* still in flight do.
C8_FailureStopsPhase ==
    /\ [](\A p \in Phases : failed[p] > 0 =>
            /\ ~Active(p)
            /\ inParse[p] = 0 /\ Waiting(p) = 0
            /\ "HandleSuccess" \notin entered
            /\ execStatus # "SUCCEEDED"
            /\ p = 1 => "SubmitStep2Jobs" \notin entered)
    /\ [][\A p \in Phases : failed[p] > 0 => Submitted(p)' = Submitted(p)]_vars

C8_Witness == failed[2] = 1 /\ orphaned[2] > 0 /\ Submitted(2) < step2Jobs

C10_Phase2Ceiling == InFlight(2) <= Step2MaxConcurrency

C10_Witness == Waiting(2) = Step2MaxConcurrency /\ Started(2) < step2Jobs

\* C11: while the phase-1 job is submitted and not yet terminal it is the only
\* job of the execution in flight: the execution waits in SubmitStep1Jobs, no
\* other iteration is in its Parse task, no phase-2 job has been submitted,
\* and no step taken meanwhile submits a job.
C11_OneJobInFlightDuringPhase1 ==
    /\ [](InFlight(1) > 0 =>
            /\ Active(1)
            /\ InFlight(1) + InFlight(2) = 1
            /\ Submitted(2) = 0
            /\ \A p \in Phases : inParse[p] = 0)
    /\ [][InFlight(1) > 0 =>
            \A p \in Phases : Submitted(p)' = Submitted(p)]_vars

C11_Witness == InFlight(1) = 1 /\ running[1][attempts] = 1 /\ step2Jobs > 1

C13_CancelledEndsFailed ==
    \A p \in Phases :
        (execStatus = "ABORTED" /\ current = MapState(p) /\ failed[p] > 0) =>
            /\ Waiting(p) = 0
            /\ WorkflowStatus = "FAILED"
            /\ cause = "ExecutionAborted"

\* C14 (as claimed): a job whose attempt timed out has sent the execution
\* through HandleJobErrors, and an execution ended by the timeout of the state
\* machine has its WorkflowRun record FAILED, for a cause other than a job's.
C14_TimeoutsRecordedFailed ==
    /\ cause = "AttemptTimedOut" =>
            ("HandleJobErrors" \in entered /\ errorAt \in {SubmitTask(1), SubmitTask(2)})
    /\ execStatus = "TIMED_OUT" =>
            (WorkflowStatus = "FAILED" /\ cause = "ExecutionTimedOut")

\* C15 (as claimed): the first failure of a SubmitJob call does not fail the
\* workflow: after it the execution has not entered failure handling and has
\* not ended FAILED.
C15_SingleFailureTolerated ==
    cause = "SubmitRejected" =>
        /\ "HandleJobErrors" \notin entered
        /\ execStatus # "FAILED"
        /\ WorkflowStatus # "FAILED"

C19_NoDefaultChromosomes ==
    /\ Range(DetectChromosomes(records)) \subseteq Range(records)
    /\ records = <<>> => (step2Jobs = 0 /\ Started(2) = 0 /\ Submitted(2) = 0)

Owners == {"WorkflowInit", "JobCalculator", "SuccessHandler", "ErrorHandler"}

\* C22: the command parser, the manifest processor and the Batch jobs are
\* allowed no write action on the workflow table or the job status table, and
\* no write of a record is a step of one of them (a write leaves the record it
\* wrote in the table, so the records of the table after the step are the
\* writes the step can be).
C22_OnlyOwnersWrite ==
    /\ [](\A f \in Principals \ Owners : \A a \in TableWriteActions, t \in Tables :
            ~ Allowed(f, a, t))
    /\ [][\A f \in Principals \ Owners :
            /\ \A i \in workflowTable' :
                  /\ ~ PrincipalPutsWorkflow(f, i.status)
                  /\ ~ PrincipalUpdatesWorkflow(f, i.status)
            /\ \A i \in jobStatusTable' :
                  /\ ~ PrincipalPutsJob(f, i.jobId, i.status)
                  /\ ~ PrincipalUpdatesJob(f, i.jobId, i.status)]_vars

\* Both tables hold a record written by an owner, one of them updated.
C22_Witness ==
    /\ \E i \in workflowTable : i.workflowId = "wf-a"
    /\ \E i \in jobStatusTable : i.updatedAt > i.createdAt
    /\ \A f \in Owners : \A t \in Tables : Allowed(f, "dynamodb:UpdateItem", t)

\* C23 (as claimed): only objects named manifest.json, or whose key ends with
\* .manifest.json, are forwarded to the manifest notification topic.
C23_OnlyManifestsNotified == \A key \in topic : IsManifest(key)

\* C23 (amended): the uploads forwarded to the manifest notification topic are
\* exactly those whose key ends with .json, manifest or not; an object of
\* another suffix produces no notification and no message, and an execution
\* is started only for a forwarded upload that names a manifest.
C23_JsonUploadsNotified ==
    /\ topic = {key \in dataBucket : EndsWith(key, <<".json">>)}
    /\ Keys(manifestQueue \cup received \cup manifestDeadLetterQueue) \cup processed
         \subseteq topic
    /\ started \subseteq {key \in topic : IsManifest(key)}

C23_Witness ==
    /\ <<"genotypes", ".bed">> \in dataBucket \ topic
    /\ <<"samples", ".json">> \in processed \ started
    /\ <<"study1/", "manifest", ".json">> \in started

\* C24: the dependencies declared between the stacks have no cycle, every
\* stack depends, directly or transitively, on each stack whose resources its
\* props receive, and so a stack is deployed only when the stacks it consumes
\* are.
C24_DeployOrder ==
    /\ \A s \in Stacks : s \notin Dependencies(s)
    /\ \A s \in Stacks : Consumes(s) \subseteq Dependencies(s)
    /\ \A s \in deployed : Consumes(s) \subseteq deployed

C24_Witness == selected = {"GwasMonitoringStack"} /\ deployed = Stacks

C25_HandlerGetsFailureDetails ==
    (current = "HandleJobErrors" /\ execStatus = "RUNNING") =>
        /\ HandleJobErrorsPayload.workflowId = {[ok |-> TRUE, value |-> JString(workflowId)]}
        /\ \A r \in HandleJobErrorsPayload.failedJobs :
              r.ok /\ Len(r.value.items) > 0

\* C26: once HandleJobErrors is entered the execution stays in it or goes to
\* WorkflowFailed; whether the handler returns or raises, HandleSuccess and
\* WorkflowSucceeded are never entered, the execution never ends SUCCEEDED,
\* and it ends FAILED, in WorkflowFailed unless the handler raised.
C26_ErrorsNeverSucceed ==
    /\ []("HandleJobErrors" \in entered =>
            /\ "HandleSuccess" \notin entered
            /\ "WorkflowSucceeded" \notin entered
            /\ execStatus \in {"RUNNING", "FAILED"}
            /\ (execStatus = "FAILED" =>
                    current = (IF errorAt = "HandleJobErrors" THEN "HandleJobErrors"
                                                              ELSE "WorkflowFailed")))
    /\ [][current = "HandleJobErrors" =>
            current' \in {"HandleJobErrors", "WorkflowFailed"}]_vars
    /\ [][current = "WorkflowFailed" => current' = "WorkflowFailed"]_vars

C26_Witness ==
    /\ "HandleJobErrors" \in entered
    /\ errorAt = "HandleJobErrors"
    /\ execStatus = "FAILED"
    /\ failed[2] > 0 /\ succeeded[2] > 0

\* C27: the Succeed state is entered only by the return of HandleSuccess, an
\* execution that has ended SUCCEEDED has had HandleSuccess return without an
\* error, and when HandleSuccess raises the execution ends FAILED in it and
\* never enters WorkflowSucceeded.
C27_SuccessAfterHandleSuccess ==
    /\ []("WorkflowSucceeded" \in entered =>
            ("HandleSuccess" \in entered /\ errorAt # "HandleSuccess"))
    /\ [](execStatus = "SUCCEEDED" => current = "WorkflowSucceeded")
    /\ [](errorAt = "HandleSuccess" =>
            /\ execStatus = "FAILED"
            /\ current = "HandleSuccess"
            /\ "WorkflowSucceeded" \notin entered)
    /\ [][(current # "WorkflowSucceeded" /\ current' = "WorkflowSucceeded") =>
            (current = "HandleSuccess" /\ errorAt' = errorAt /\ execStatus' = "RUNNING")]_vars

C27_Witness ==
    /\ errorAt = "HandleSuccess"
    /\ execStatus = "FAILED"
    /\ step2Jobs > 1 /\ succeeded[2] = step2Jobs

\* C28: no state of the state machine leads back to itself, and every
\* execution in which the tasks return ends, SUCCEEDED or FAILED.
C28_Terminates ==
    /\ [](\A s \in States : s \notin Descendants(Successors(s), {}))
    /\ <>(execStatus \in {"SUCCEEDED", "FAILED"})

C28_Witness ==
    /\ execStatus = "FAILED" /\ current = "WorkflowFailed"
    /\ step1Jobs = 1 /\ step2Jobs > 1
    /\ succeeded[2] > 0 /\ failed[2] > 0
    /\ orphaned[2] = 0

====
